---------------------------- MODULE Spec2Model ----------------------------
(***************************************************************************)
(* Model of the satellite sensor convolution code:                         *)
(*   convolution/Convolution.py        the Convolution class               *)
(*   convolution/sensors.py            its fixed-band sensor routines      *)
(*   convolution/apply_convolutions.py the parametric band routines        *)
(*   do_convolution/convolution.py     the older convolution() function    *)
(*   do_convolution/sensors.py         its fixed-band sensor routines      *)
(*                                                                         *)
(* Floating point numbers are modelled as exact rationals extended with    *)
(* NaN and the two infinities; rounding error is outside the model.        *)
(***************************************************************************)
EXTENDS Integers, Sequences, FiniteSets, TLC

\* ------------------------------------------------------------------ bounds
\* Largest number of observation columns of an input reflectance table.
MaxObs == 2
\* Largest number of do_convolutions calls made on one Convolution object.
MaxRuns == 2

\* ----------------------------------------------------------------- numbers
\* A float: a rational n/d with d > 0 (k = "num"), NaN, or an infinity whose
\* sign is n.  Rationals are not reduced; Eq compares them as numbers.
Abs(a) == IF a < 0 THEN -a ELSE a

Sign(a) == IF a < 0 THEN -1 ELSE IF a > 0 THEN 1 ELSE 0

Min(a, b) == IF a < b THEN a ELSE b

Max(a, b) == IF a > b THEN a ELSE b

Num(n, d) == [k |-> "num", n |-> Sign(d) * n, d |-> Abs(d)]

NaN == [k |-> "nan", n |-> 0, d |-> 1]

Inf(s) == [k |-> "inf", n |-> s, d |-> 1]

Zero == Num(0, 1)

IsFinite(a) == a.k = "num"

IsZero(a) == a.k = "num" /\ a.n = 0

\* a == b as floats (NaN equals nothing).
Eq(a, b) ==
    \/ a.k = "num" /\ b.k = "num" /\ a.n * b.d = b.n * a.d
    \/ a.k = "inf" /\ b.k = "inf" /\ a.n = b.n

\* a + b
Add(a, b) ==
    IF a.k = "nan" \/ b.k = "nan" THEN NaN
    ELSE IF a.k = "inf" /\ b.k = "inf" THEN (IF a.n = b.n THEN a ELSE NaN)
    ELSE IF a.k = "inf" THEN a
    ELSE IF b.k = "inf" THEN b
    ELSE IF a.d = b.d THEN Num(a.n + b.n, a.d)
    ELSE Num(a.n * b.d + b.n * a.d, a.d * b.d)

\* a * b
Mul(a, b) ==
    IF a.k = "nan" \/ b.k = "nan" THEN NaN
    ELSE IF a.k = "inf" \/ b.k = "inf"
         THEN (IF Sign(a.n) * Sign(b.n) = 0 THEN NaN ELSE Inf(Sign(a.n) * Sign(b.n)))
    ELSE Num(a.n * b.n, a.d * b.d)

\* a / b for numpy floats: a zero divisor gives NaN or an infinity, never an
\* exception.
Div(a, b) ==
    IF a.k = "nan" \/ b.k = "nan" THEN NaN
    ELSE IF a.k = "inf" THEN (IF b.k = "inf" THEN NaN
                              ELSE Inf(a.n * (IF b.n < 0 THEN -1 ELSE 1)))
    ELSE IF b.k = "inf" THEN Zero
    ELSE IF b.n = 0 THEN (IF a.n = 0 THEN NaN ELSE Inf(Sign(a.n)))
    ELSE Num(a.n * b.d, a.d * b.n)

\* np.trapz(y, x): the sum of (x[i+1] - x[i]) * (y[i] + y[i+1]) / 2 over the
\* consecutive samples; 0 for fewer than two samples.  x holds integers.
Panel(y, x, i) == Mul(Num(x[i + 1] - x[i], 2), Add(y[i], y[i + 1]))

RECURSIVE Panels(_, _, _)
Panels(y, x, i) ==
    IF i >= Len(y) THEN Zero ELSE Add(Panel(y, x, i), Panels(y, x, i + 1))

trapz(y, x) == Panels(y, x, 1)

\* The sum of the whole numbers f[i], i in DOMAIN f: the number of unit
\* cells <<i, k>> under the positive part of f less the number over its
\* negative part.
SumOf(f) ==
    Cardinality(UNION {{<<i, k>> : k \in 1..f[i]} : i \in DOMAIN f})
    - Cardinality(UNION {{<<i, k>> : k \in 1..(-f[i])} : i \in DOMAIN f})

\* np.trapz(y, axis=0): unit spacing, the sum of (y[i] + y[i+1]) / 2.  It is
\* taken over table cells, which the model holds as whole numbers or NaN.
trapz1(y) ==
    IF Len(y) < 2 THEN Zero
    ELSE IF \E i \in DOMAIN y : y[i].k # "num" THEN NaN
    ELSE Num(SumOf([i \in 1..(Len(y) - 1) |-> y[i].n + y[i + 1].n]), 2)

\* ------------------------------------------------------------------ tables
\* A table (pandas DataFrame) is held by what determines its cells: the
\* wavelength of its first row, its number of rows (one row per wavelength
\* unit) and of columns, and the shape of its contents.

\* The shapes an SRF table is drawn from: weight 1 everywhere, a weight that
\* varies with the row and the band, weight 0 everywhere.
SrfShapes == {"box", "saw", "dead"}

\* pd.DataFrame(): no rows, no columns.
EmptyFrame == [first |-> 0, nrows |-> 0, ncols |-> 0, shape |-> "empty"]

\* DataFrame.empty
IsEmpty(t) == t.nrows = 0 \/ t.ncols = 0

\* The response weight in row i (from 0), band column c, of an SRF table.
SrfCell(t, i, c) ==
    CASE t.shape = "box" -> Num(1, 1)
      [] t.shape = "saw" -> Num((i + c) % 3, 1)
      [] OTHER -> Zero

\* The kinds an observation column is drawn from: a constant reflectance, a
\* reflectance that varies with the wavelength.
ObsKinds == {"flat", "ramp"}

\* The reflectance of a column of kind `kind` at wavelength w.
ReflCell(kind, w) ==
    CASE kind = "flat" -> Num(2, 1)
      [] OTHER -> Num(1 + (w % 4), 1)

\* Whether wavelength w is a row label of table t.
InIndex(t, w) == t.first <= w /\ w < t.first + t.nrows

\* srf.mul(reflectance_data[column], axis=0): the rows are aligned on their
\* wavelength labels; the product has the union of the two indexes as its
\* rows and is NaN in every row one of the two operands lacks.
Product(t, index, kind) ==
    LET lo == Min(t.first, index.first)
        hi == Max(t.first + t.nrows, index.first + index.nrows)
    IN  [first |-> lo, nrows |-> hi - lo, ncols |-> t.ncols,
         srf |-> t, refl |-> index, kind |-> kind]

mul(t, refl, j) ==
    Product(t, [first |-> refl.first, nrows |-> refl.nrows], refl.cols[j].kind)

\* The cell in row i (from 0), column c, of a product table.
ProdCell(p, i, c) ==
    LET w == p.first + i
    IN  IF InIndex(p.srf, w) /\ InIndex(p.refl, w)
        THEN Mul(SrfCell(p.srf, w - p.srf.first, c), ReflCell(p.kind, w))
        ELSE NaN

\* t.iloc[lo:hi, c] of an SRF table: the rows lo .. hi-1 that exist.
SrfSlice(t, lo, hi, c) ==
    LET n == Max(0, Min(hi, t.nrows) - lo)
    IN  [i \in 1..n |-> SrfCell(t, lo + i - 1, c)]

\* band_df.iloc[lo:hi, c] of a product table.
ProdSlice(p, lo, hi, c) ==
    LET n == Max(0, Min(hi, p.nrows) - lo)
    IN  [i \in 1..n |-> ProdCell(p, lo + i - 1, c)]

\* ------------------------------------------------ convolution/sensors.py
\* The bands of each routine, in the order of its result list, each as
\* <<lo, hi, column>>.
sentinel2_bands ==
    << <<62, 107, 0>>, <<89, 184, 1>>, <<188, 233, 2>>, <<296, 344, 3>>,
       <<345, 364, 4>>, <<381, 399, 5>>, <<419, 447, 6>>, <<423, 557, 7>>,
       <<497, 531, 8>>, <<582, 609, 9>>, <<987, 1063, 10>>,
       <<1189, 1332, 11>>, <<1728, 1970, 12>> >>

sentinel3_bands ==
    << <<37, 62, 0>>, <<52, 72, 1>>, <<83, 103, 2>>, <<131, 150, 3>>,
       <<151, 170, 4>>, <<201, 220, 5>>, <<261, 280, 6>>, <<305, 325, 7>>,
       <<315, 333, 8>>, <<323, 340, 9>>, <<349, 369, 10>>, <<396, 413, 11>>,
       <<406, 418, 12>>, <<408, 422, 13>>, <<412, 424, 14>>, <<417, 442, 15>>,
       <<501, 530, 16>>, <<524, 544, 17>>, <<539, 559, 18>>, <<575, 604, 19>>,
       <<645, 694, 20>> >>

superdove_bands ==
    << <<77, 111, 0>>, <<108, 172, 1>>, <<157, 209, 2>>, <<193, 242, 3>>,
       <<243, 285, 4>>, <<291, 339, 5>>, <<342, 374, 6>>, <<490, 545, 7>> >>

landsat5_bands ==
    << <<60, 203, 0>>, <<150, 301, 1>>, <<230, 391, 2>>, <<380, 596, 3>>,
       <<1164, 1531, 4>>, <<1650, 2051, 5>> >>

landsat7_bands ==
    << <<60, 174, 0>>, <<150, 301, 1>>, <<230, 391, 2>>, <<380, 596, 3>>,
       <<1164, 1531, 4>>, <<1650, 2051, 5>>, <<150, 591, 6>> >>

landsat8_bands ==
    << <<77, 110, 0>>, <<86, 179, 1>>, <<162, 261, 2>>, <<275, 342, 3>>,
       <<479, 551, 4>>, <<1165, 1348, 5>>, <<1687, 2006, 6>>, <<138, 343, 7>>,
       <<990, 1060, 8>> >>

landsat9_bands ==
    << <<77, 110, 0>>, <<86, 181, 1>>, <<162, 261, 2>>, <<275, 342, 3>>,
       <<479, 551, 4>>, <<1165, 1348, 5>>, <<1687, 2006, 6>>, <<138, 343, 7>>,
       <<990, 1060, 8>> >>

\* The last row any band of a routine reads.
LastRow(bands) ==
    CHOOSE m \in {bands[i][2] : i \in DOMAIN bands} :
        \A i \in DOMAIN bands : bands[i][2] <= m

\* The SRF table of a routine's sensor: a column per band, and rows up to
\* the last one a band reads.
SrfTable(bands, shape) ==
    [first |-> 300, nrows |-> LastRow(bands), ncols |-> Len(bands),
     shape |-> shape]

\* An SRF table that ends in the middle of the rows of the routine's last
\* band: a table a caller can pass that is shorter than the ranges written
\* in the routine.
ShortSrfTable(bands, shape) ==
    [SrfTable(bands, shape) EXCEPT
        !.nrows = (bands[Len(bands)][1] + bands[Len(bands)][2]) \div 2]

\* The index of a reflectance table against the SRF table's: the same,
\* starting later (the first bands lack data), starting earlier.
Offsets == {0, 120, -50}

\* The index of the reflectance table that starts `off` wavelength units
\* after SRF table t and ends with it.
ReflIndex(t, off) == [first |-> t.first + off, nrows |-> t.nrows - off]

SensorBands ==
    {sentinel2_bands, sentinel3_bands, superdove_bands, landsat5_bands,
     landsat7_bands, landsat8_bands, landsat9_bands}

\* A band expression whose SRF integral runs one row too far.
BandValue_long_srf(band_df, t, b) ==
    Div(trapz1(ProdSlice(band_df, b[1], b[2], b[3])),
        trapz1(SrfSlice(t, b[1], b[2] + 1, b[3])))

\* One band expression of a sensor routine:
\*   np.trapz(band_df.iloc[lo:hi, c], axis=0) / np.trapz(srf.iloc[lo:hi, c], axis=0)
BandValue(band_df, t, b) ==
    Div(trapz1(ProdSlice(band_df, b[1], b[2], b[3])),
        trapz1(SrfSlice(t, b[1], b[2], b[3])))

\* Every (product table, SRF table, band) the inputs of the model give rise
\* to, and the band value of each: the band expression is a function of
\* these three alone, so it is evaluated once for each.
BandKeys ==
    UNION {{<<Product(SrfTable(bands, shape), ReflIndex(SrfTable(bands, shape), off), kind),
              SrfTable(bands, shape), bands[b]>> :
               b \in DOMAIN bands, shape \in SrfShapes, off \in Offsets,
               kind \in ObsKinds} : bands \in SensorBands}
    \cup {<<Product(ShortSrfTable(superdove_bands, shape),
                    ReflIndex(ShortSrfTable(superdove_bands, shape), off), kind),
            ShortSrfTable(superdove_bands, shape), superdove_bands[b]>> :
              b \in DOMAIN superdove_bands, shape \in SrfShapes, off \in Offsets,
              kind \in ObsKinds}

BandValues == [key \in BandKeys |-> BandValue(key[1], key[2], key[3])]

\* The series with the band values in the reverse of the band order.
Series_reversed(bands, t, muls_item) ==
    [name |-> muls_item.name \o "_conv",
     vals |-> [b \in 1..Len(bands) |->
                  BandValues[<<muls_item.df, t, bands[Len(bands) + 1 - b]>>]]]

\* pd.Series([Band1, ...], index=..., name=col_name + '_conv')
Series(bands, t, muls_item) ==
    [name |-> muls_item.name \o "_conv",
     vals |-> [b \in 1..Len(bands) |-> BandValues[<<muls_item.df, t, bands[b]>>]]]

\* The loop with each new column put before the columns of the table.
RECURSIVE ConvolveFrom_prepend(_, _, _, _, _)
ConvolveFrom_prepend(bands, t, band_muls, convolved_bands, i) ==
    IF i > Len(band_muls) THEN convolved_bands
    ELSE ConvolveFrom_prepend(bands, t, band_muls,
             [convolved_bands EXCEPT
                 !.cols = <<Series(bands, t, band_muls[i])>> \o @],
             i + 1)

\* The loop of a sensor routine: for each (col_name, band_df) of band_muls,
\* in insertion order, pd.concat([convolved_bands, convolved_col], axis=1).
RECURSIVE ConvolveFrom(_, _, _, _, _)
ConvolveFrom(bands, t, band_muls, convolved_bands, i) ==
    IF i > Len(band_muls) THEN convolved_bands
    ELSE ConvolveFrom(bands, t, band_muls,
             [convolved_bands EXCEPT
                 !.cols = Append(@, Series(bands, t, band_muls[i]))],
             i + 1)

sentinel2(t, band_muls, convolved_bands) ==
    ConvolveFrom(sentinel2_bands, t, band_muls, convolved_bands, 1)

sentinel3(t, band_muls, convolved_bands) ==
    ConvolveFrom(sentinel3_bands, t, band_muls, convolved_bands, 1)

superdove(t, band_muls, convolved_bands) ==
    ConvolveFrom(superdove_bands, t, band_muls, convolved_bands, 1)

landsat5(t, band_muls, convolved_bands) ==
    ConvolveFrom(landsat5_bands, t, band_muls, convolved_bands, 1)

landsat7(t, band_muls, convolved_bands) ==
    ConvolveFrom(landsat7_bands, t, band_muls, convolved_bands, 1)

landsat8(t, band_muls, convolved_bands) ==
    ConvolveFrom(landsat8_bands, t, band_muls, convolved_bands, 1)

landsat9(t, band_muls, convolved_bands) ==
    ConvolveFrom(landsat9_bands, t, band_muls, convolved_bands, 1)


\* --------------------------------------------- convolution/Convolution.py
VARIABLES
    \* the arguments of Convolution(reflectance_data, sensor_name, savefile)
    reflectance_data, sensor_name, savefile,
    \* the packaged spectral_response_functions/*.csv of the sensor
    resource,
    \* where the object is: in its constructor, constructed, or failed
    pc,
    \* the steps the constructor has executed, in order
    log,
    \* the object's attributes
    srf, srf_stds, band_muls, band_muls_stds,
    convolved_bands, convolved_bands_stds,
    \* what each do_convolutions call returned, in call order
    returned,
    \* the files written so far
    files

class_vars ==
    <<reflectance_data, sensor_name, savefile, resource, pc, log, srf,
      srf_stds, band_muls, band_muls_stds, convolved_bands,
      convolved_bands_stds, returned, files>>

VARIABLES
    \* the arguments of convolution(reflectance_data,
    \* spectral_response_function, sensor_name, s2_band_9_flag=...) and the
    \* locals of the call
    fn_reflectance_data, spectral_response_function, fn_sensor_name,
    s2_band_9_flag, fn_savefile, fn_pc, fn_band_muls, convolved_data,
    collated_conv, fn_files

fn_vars ==
    <<fn_reflectance_data, spectral_response_function, fn_sensor_name,
      s2_band_9_flag, fn_savefile, fn_pc, fn_band_muls, convolved_data,
      collated_conv, fn_files>>

VARIABLES
    \* a parametric run: which routine convolves, the band descriptors and
    \* the observations it is given, the object's srf and warnings, the
    \* position of the loop, the last call and its outcome, the output rows
    \* and the diagnostics surfaced at the end
    routine, descriptors, observations, self_srf, warnings, run_pc, obs_i,
    band_j, call, output, diagnostics

param_vars ==
    <<routine, descriptors, observations, self_srf, warnings, run_pc, obs_i,
      band_j, call, output, diagnostics>>

\* self._available_sensors
available_sensors ==
    <<"Sentinel2a", "Sentinel2b", "Sentinel3a", "Sentinel3b", "Superdove",
      "Landsat5TM", "Landsat7ETM+", "Landsat8OLI", "Landsat9OLI">>

Range(f) == {f[i] : i \in DOMAIN f}

\* Sensor names a caller may pass that the catalog lacks.
OtherSensors == {"Sentinel2", "MERIS"}

\* The sensors whose packaged data holds an stds table beside the means.
HasStds(name) == name \in {"Sentinel3a", "Sentinel3b", "Landsat8OLI", "Landsat9OLI"}

\* The band table of the routine do_convolutions runs for a sensor.
BandsOf(name) ==
    CASE name \in {"Sentinel2a", "Sentinel2b"} -> sentinel2_bands
      [] name \in {"Sentinel3a", "Sentinel3b"} -> sentinel3_bands
      [] name = "Superdove" -> superdove_bands
      [] name = "Landsat5TM" -> landsat5_bands
      [] name = "Landsat7ETM+" -> landsat7_bands
      [] name = "Landsat8OLI" -> landsat8_bands
      [] name = "Landsat9OLI" -> landsat9_bands
      [] OTHER -> << >>

\* get_central_wavelengths: the band labels of the sensor.
get_central_wavelengths(name) ==
    CASE name \in {"Sentinel2a", "Sentinel2b"} ->
           <<"Band1_443", "Band2_490", "Band3_560", "Band4_665", "Band5_705",
             "Band6_740", "Band7_783", "Band8_842", "Band8A_865", "Band9_940",
             "Band10_1375", "Band11_1610", "Band12_2190">>
      [] name \in {"Sentinel3a", "Sentinel3b"} ->
           <<"Band1_400", "Band2_412.5", "Band3_442.5", "Band4_490",
             "Band5_510", "Band6_560", "Band7_620", "Band8_665",
             "Band9_673.75", "Band10_681.25", "Band11_708.75",
             "Band12_753.75", "Band13_761.25", "Band14_764.375",
             "Band15_767.5", "Band16_778.75", "Band17_865", "Band18_885",
             "Band19_900", "Band20_940", "Band21_1020">>
      [] name = "Superdove" ->
           <<"Band1_443", "Band2_490", "Band3_531", "Band4_565", "Band5_610",
             "Band6_665", "Band7_705", "Band8_865">>
      [] name = "Landsat5TM" ->
           <<"Band1_485", "Band2_569", "Band3_660", "Band4_840", "Band5_1676",
             "Band7_2223">>
      [] name = "Landsat7ETM+" ->
           <<"Band1_483", "Band2_560", "Band3_662", "Band4_835", "Band5_1648",
             "Band7_2206", "Band8_706">>
      [] name = "Landsat8OLI" ->
           <<"Band1_443", "Band2_482", "Band3_561", "Band4_655", "Band5_865",
             "Band6_1609", "Band7_2201", "Band8_590", "Band9_1373">>
      [] name = "Landsat9OLI" ->
           <<"Band1_443", "Band2_482", "Band3_562", "Band4_655", "Band5_865",
             "Band6_1610", "Band7_2200", "Band8_590", "Band9_1375">>
      [] OTHER -> << >>

\* The table pd.read_csv loads from a packaged file of the given contents.
read_csv(name, shape) == SrfTable(BandsOf(name), shape)

\* An attribute the constructor has not assigned yet.
Unset == [first |-> 0, nrows |-> 0, ncols |-> 0, shape |-> "unset"]

\* What get_srf returns when none of its tests matches: None, which the
\* constructor cannot unpack into a pair.
FallsThrough == <<Unset, Unset>>

\* get_srf without the test for 'Landsat7ETM+'.
get_srf_less_landsat7(name, res) ==
    IF name = "Sentinel2a" \/ name = "Sentinel2b"
    THEN <<read_csv(name, res.means), EmptyFrame>>
    ELSE IF name = "Sentinel3a" \/ name = "Sentinel3b"
    THEN <<read_csv(name, res.means), read_csv(name, res.stds)>>
    ELSE IF name = "Superdove"
    THEN <<read_csv(name, res.means), EmptyFrame>>
    ELSE IF name = "Landsat5TM"
    THEN <<read_csv(name, res.means), EmptyFrame>>
    ELSE IF name = "Landsat8OLI" \/ name = "Landsat9OLI"
    THEN <<read_csv(name, res.means), read_csv(name, res.stds)>>
    ELSE FallsThrough

\* get_srf, lines 184-224: one test after the other, each returning the
\* pair (means table, stds table) of its sensors; the stds table is an
\* empty DataFrame for the sensors that have none.
get_srf(name, res) ==
    IF name = "Sentinel2a" \/ name = "Sentinel2b"
    THEN <<read_csv(name, res.means), EmptyFrame>>
    ELSE IF name = "Sentinel3a" \/ name = "Sentinel3b"
    THEN <<read_csv(name, res.means), read_csv(name, res.stds)>>
    ELSE IF name = "Superdove"
    THEN <<read_csv(name, res.means), EmptyFrame>>
    ELSE IF name = "Landsat5TM"
    THEN <<read_csv(name, res.means), EmptyFrame>>
    ELSE IF name = "Landsat7ETM+"
    THEN <<read_csv(name, res.means), EmptyFrame>>
    ELSE IF name = "Landsat8OLI" \/ name = "Landsat9OLI"
    THEN <<read_csv(name, res.means), read_csv(name, res.stds)>>
    ELSE FallsThrough

\* pd.DataFrame(index=index_col): the band labels as rows, no column.
NewFrame(index) == [index |-> index, cols |-> << >>]

NoFrame == NewFrame(<< >>)

\* DataFrame.empty of an output table.
FrameEmpty(df) == Len(df.index) = 0 \/ Len(df.cols) = 0

\* A constructor that loads the SRF tables before it looks at the name.
Convolution_validate_late ==
    /\ pc = "new"
    /\ log' = <<"get_srf", "validate">>
    /\ pc' = IF sensor_name \in Range(available_sensors) THEN "frames" ELSE "ValueError"
    /\ srf' = SrfTable(sentinel2_bands, resource.means)
    /\ srf_stds' = EmptyFrame
    /\ UNCHANGED <<reflectance_data, sensor_name, savefile, resource,
                   band_muls, band_muls_stds, convolved_bands,
                   convolved_bands_stds, returned, files>>
    /\ UNCHANGED <<fn_vars, param_vars>>

\* __init__, lines 58-75: store the arguments, then reject a sensor name
\* that is not in the catalog.
Convolution_validate ==
    /\ pc = "new"
    /\ log' = Append(log, "validate")
    /\ pc' = IF sensor_name \in Range(available_sensors) THEN "get_srf" ELSE "ValueError"
    /\ UNCHANGED <<reflectance_data, sensor_name, savefile, resource, srf,
                   srf_stds, band_muls, band_muls_stds, convolved_bands,
                   convolved_bands_stds, returned, files>>
    /\ UNCHANGED <<fn_vars, param_vars>>

\* __init__, line 78: self.srf, self.srf_stds = self.get_srf()
Convolution_get_srf ==
    /\ pc = "get_srf"
    /\ log' = Append(log, "get_srf")
    /\ srf' = get_srf(sensor_name, resource)[1]
    /\ srf_stds' = get_srf(sensor_name, resource)[2]
    /\ pc' = IF get_srf(sensor_name, resource) = FallsThrough THEN "TypeError"
             ELSE "frames"
    /\ UNCHANGED <<reflectance_data, sensor_name, savefile, resource,
                   band_muls, band_muls_stds, convolved_bands,
                   convolved_bands_stds, returned, files>>
    /\ UNCHANGED <<fn_vars, param_vars>>

\* __init__, lines 81-87: the two empty output tables, indexed by the band
\* labels.
Convolution_frames ==
    /\ pc = "frames"
    /\ log' = Append(log, "frames")
    /\ convolved_bands' = NewFrame(get_central_wavelengths(sensor_name))
    /\ convolved_bands_stds' = NewFrame(get_central_wavelengths(sensor_name))
    /\ pc' = "products"
    /\ UNCHANGED <<reflectance_data, sensor_name, savefile, resource, srf,
                   srf_stds, band_muls, band_muls_stds, returned, files>>
    /\ UNCHANGED <<fn_vars, param_vars>>

\* The dict of products, one per observation column, in column order.
Products(t, refl) ==
    [j \in 1..Len(refl.cols) |-> [name |-> refl.cols[j].name, df |-> mul(t, refl, j)]]

\* __init__, lines 91-97: multiply every observation column by the SRF
\* table, and by the stds table when the sensor has one.
Convolution_products ==
    /\ pc = "products"
    /\ log' = Append(log, "products")
    /\ band_muls' = Products(srf, reflectance_data)
    /\ band_muls_stds' = IF ~IsEmpty(srf_stds)
                         THEN Products(srf_stds, reflectance_data)
                         ELSE << >>
    /\ pc' = "ready"
    /\ UNCHANGED <<reflectance_data, sensor_name, savefile, resource, srf,
                   srf_stds, convolved_bands, convolved_bands_stds, returned,
                   files>>
    /\ UNCHANGED <<fn_vars, param_vars>>

\* A run of a sensor routine on the means or on the stds inputs.
Run(routine_name, on) == routine_name \o "(" \o on \o ")"

\* do_convolutions, lines 237-265: the tests of the sensor name, one after
\* the other, and the routine runs of every test that holds.
Runs(name) ==
    (IF name = "Sentinel2a" \/ name = "Sentinel2b"
     THEN <<Run("sentinel2", "means")>> ELSE << >>)
    \o (IF name = "Sentinel3a" \/ name = "Sentinel3b"
        THEN <<Run("sentinel3", "means"), Run("sentinel3", "stds")>> ELSE << >>)
    \o (IF name = "Superdove" THEN <<Run("superdove", "means")>> ELSE << >>)
    \o (IF name = "Landsat5TM" THEN <<Run("landsat5", "means")>> ELSE << >>)
    \o (IF name = "Landsat7ETM+" THEN <<Run("landsat7", "means")>> ELSE << >>)
    \o (IF name = "Landsat8OLI"
        THEN <<Run("landsat8", "means"), Run("landsat8", "stds")>> ELSE << >>)
    \o (IF name = "Landsat9OLI"
        THEN <<Run("landsat9", "means"), Run("landsat9", "stds")>> ELSE << >>)

\* The routine of a run, on (srf, band_muls, table).
RoutineOf(run, t, muls, table) ==
    CASE run \in {Run("sentinel2", on) : on \in {"means", "stds"}} -> sentinel2(t, muls, table)
      [] run \in {Run("sentinel3", on) : on \in {"means", "stds"}} -> sentinel3(t, muls, table)
      [] run \in {Run("superdove", on) : on \in {"means", "stds"}} -> superdove(t, muls, table)
      [] run \in {Run("landsat5", on) : on \in {"means", "stds"}} -> landsat5(t, muls, table)
      [] run \in {Run("landsat7", on) : on \in {"means", "stds"}} -> landsat7(t, muls, table)
      [] run \in {Run("landsat8", on) : on \in {"means", "stds"}} -> landsat8(t, muls, table)
      [] OTHER -> landsat9(t, muls, table)

\* The runs of a sequence that are made on the means (or the stds) inputs.
RunsOn(runs, on) ==
    {i \in DOMAIN runs : \E r \in {"sentinel2", "sentinel3", "superdove", "landsat5",
                                    "landsat7", "landsat8", "landsat9"} :
                             runs[i] = Run(r, on)}

\* A table after the runs from the i-th on that are made on its inputs.
RECURSIVE AfterRuns(_, _, _, _, _, _)
AfterRuns(runs, i, on, t, muls, table) ==
    IF i > Len(runs) THEN table
    ELSE AfterRuns(runs, i + 1, on, t, muls,
                   IF i \in RunsOn(runs, on) THEN RoutineOf(runs[i], t, muls, table)
                   ELSE table)

\* do_convolutions, lines 237-265: the means table after the call.
NextMeans ==
    AfterRuns(Runs(sensor_name), 1, "means", srf, band_muls, convolved_bands)

\* do_convolutions: the stds table after the call; only the routines of the
\* sensors with an stds table are run on it.
NextStds ==
    AfterRuns(Runs(sensor_name), 1, "stds", srf_stds, band_muls_stds,
              convolved_bands_stds)

\* do_convolutions, lines 267-272: the files the call writes.
Written(means) ==
    IF savefile # ""
    THEN {sensor_name \o "_convolved_bands.csv"}
         \cup (IF ~FrameEmpty(means)
               THEN {sensor_name \o "_convolved_bands_stds.csv"}
               ELSE {})
    ELSE {}

\* The return with the test of line 270 in place of that of line 274.
Returned_by_means(means, stds) ==
    IF ~FrameEmpty(means) THEN <<means, stds>> ELSE <<means>>

\* do_convolutions, lines 274-277: the pair of tables, or the means table.
Returned(means, stds) ==
    IF ~IsEmpty(srf_stds) THEN <<means, stds>> ELSE <<means>>

\* One call of do_convolutions on the constructed object.
do_convolutions ==
    /\ pc = "ready"
    /\ Len(returned) < MaxRuns
    /\ convolved_bands' = NextMeans
    /\ convolved_bands_stds' = NextStds
    /\ files' = files \cup Written(convolved_bands')
    /\ returned' = Append(returned, Returned(convolved_bands', convolved_bands_stds'))
    /\ log' = log \o Runs(sensor_name)
    /\ UNCHANGED <<reflectance_data, sensor_name, savefile, resource, pc,
                   srf, srf_stds, band_muls, band_muls_stds>>
    /\ UNCHANGED <<fn_vars, param_vars>>

\* The names of the observation columns, in column order.
ObsNames == <<"o1", "o2", "o3", "o4">>

\* The input reflectance tables with n observation columns and the given
\* index.
ReflTables(index, n) ==
    { [first |-> index.first, nrows |-> index.nrows,
       cols |-> [j \in 1..n |-> [name |-> ObsNames[j], kind |-> kinds[j]]]] :
        kinds \in [1..n -> ObsKinds] }

\* The reflectance tables a caller passes for a sensor.
Reflectances(name) ==
    LET bands == IF name \in Range(available_sensors) THEN BandsOf(name)
                 ELSE sentinel2_bands
    IN  UNION {ReflTables(ReflIndex(SrfTable(bands, "box"), off), n) :
                   n \in 0..MaxObs, off \in Offsets}

Resources(name) ==
    IF HasStds(name)
    THEN {[means |-> m, stds |-> s] : m \in SrfShapes, s \in {"saw", "dead"}}
    ELSE {[means |-> m, stds |-> "none"] : m \in SrfShapes}

ClassInit ==
    /\ sensor_name \in Range(available_sensors) \cup OtherSensors
    /\ savefile \in {"", "out"}
    /\ resource \in Resources(sensor_name)
    /\ reflectance_data \in Reflectances(sensor_name)
    /\ pc = "new"
    /\ log = << >>
    /\ srf = Unset
    /\ srf_stds = Unset
    /\ band_muls = << >>
    /\ band_muls_stds = << >>
    /\ convolved_bands = NoFrame
    /\ convolved_bands_stds = NoFrame
    /\ returned = << >>
    /\ files = {}

ClassNext ==
    \/ Convolution_validate
    \/ Convolution_get_srf
    \/ Convolution_frames
    \/ Convolution_products
    \/ do_convolutions

\* The object before its construction starts.
ClassIdle ==
    /\ sensor_name = ""
    /\ savefile = ""
    /\ resource = [means |-> "none", stds |-> "none"]
    /\ reflectance_data = [first |-> 0, nrows |-> 0, cols |-> << >>]
    /\ pc = "idle"
    /\ log = << >>
    /\ srf = Unset
    /\ srf_stds = Unset
    /\ band_muls = << >>
    /\ band_muls_stds = << >>
    /\ convolved_bands = NoFrame
    /\ convolved_bands_stds = NoFrame
    /\ returned = << >>
    /\ files = {}


\* -------------------------------------------- do_convolution/sensors.py
\* The band list with the rows and column of Band 10 of the 13 band table
\* where Band 11 stands when Band 9 is included.
fn_sentinel2_bands_band10(flag) ==
    IF flag
    THEN << <<62, 107, 0>>, <<89, 184, 1>>, <<188, 233, 2>>, <<296, 344, 3>>,
            <<345, 364, 4>>, <<381, 399, 5>>, <<419, 447, 6>>,
            <<423, 557, 7>>, <<497, 531, 8>>, <<582, 609, 9>>,
            <<987, 1063, 10>>, <<1728, 1970, 12>> >>
    ELSE << <<62, 107, 0>>, <<89, 184, 1>>, <<188, 233, 2>>, <<296, 344, 3>>,
            <<345, 364, 4>>, <<381, 399, 5>>, <<419, 447, 6>>,
            <<423, 557, 7>>, <<497, 531, 8>>, <<1189, 1332, 11>>,
            <<1728, 1970, 12>> >>

\* The bands of sentinel2(srf, band_muls, s2_band_9_flag), in the order of
\* its value list: band 9 only with the flag, band 10 never.
fn_sentinel2_bands(flag) ==
    IF flag
    THEN << <<62, 107, 0>>, <<89, 184, 1>>, <<188, 233, 2>>, <<296, 344, 3>>,
            <<345, 364, 4>>, <<381, 399, 5>>, <<419, 447, 6>>,
            <<423, 557, 7>>, <<497, 531, 8>>, <<582, 609, 9>>,
            <<1189, 1332, 11>>, <<1728, 1970, 12>> >>
    ELSE << <<62, 107, 0>>, <<89, 184, 1>>, <<188, 233, 2>>, <<296, 344, 3>>,
            <<345, 364, 4>>, <<381, 399, 5>>, <<419, 447, 6>>,
            <<423, 557, 7>>, <<497, 531, 8>>, <<1189, 1332, 11>>,
            <<1728, 1970, 12>> >>

fn_sentinel2_labels(flag) ==
    IF flag
    THEN <<"Band1_443", "Band2_490", "Band3_560", "Band4_665", "Band5_705",
           "Band6_740", "Band7_783", "Band8_842", "Band8A_865", "Band9_940",
           "Band11_1610", "Band12_2190">>
    ELSE <<"Band1_443", "Band2_490", "Band3_560", "Band4_665", "Band5_705",
           "Band6_740", "Band7_783", "Band8_842", "Band8A_865",
           "Band11_1610", "Band12_2190">>

fn_sentinel3_labels ==
    <<"Band1_400", "Band2_412.5", "Band3_442.5", "Band4_490", "Band5_510",
      "Band6_560", "Band7_620", "Band8_665", "Band9_673.75", "Band10_681.25",
      "Band11_708.75", "Band12_753.75", "Band13_761.25", "Band14_764.375",
      "Band15_767.5", "Band16_778.75", "Band17_865", "Band18_885",
      "Band19_900", "Band20_940", "Band21_1020">>

fn_superdove_labels ==
    <<"Band1_443", "Band2_490", "Band3_531", "Band4_565", "Band5_610",
      "Band6_665", "Band7_705", "Band8_865">>

\* The loop of a routine of this package: one DataFrame per item of
\* band_muls, indexed by the band labels, with the column col_name + '_conv'.
convolved_dfs(bands, labels, t, muls) ==
    [i \in 1..Len(muls) |->
        [index |-> labels, cols |-> <<Series(bands, t, muls[i])>>]]

fn_sentinel2(t, muls, flag) ==
    convolved_dfs(fn_sentinel2_bands(flag), fn_sentinel2_labels(flag), t, muls)

\* The bands of sentinel3(srf, band_muls), lines 89-131.
fn_sentinel3_bands ==
    << <<37, 62, 0>>, <<52, 72, 1>>, <<83, 103, 2>>, <<131, 150, 3>>,
       <<151, 170, 4>>, <<201, 220, 5>>, <<261, 280, 6>>, <<305, 325, 7>>,
       <<315, 333, 8>>, <<323, 340, 9>>, <<349, 369, 10>>, <<396, 413, 11>>,
       <<406, 418, 12>>, <<408, 422, 13>>, <<412, 424, 14>>, <<417, 442, 15>>,
       <<501, 530, 16>>, <<524, 544, 17>>, <<539, 559, 18>>, <<575, 604, 19>>,
       <<645, 694, 20>> >>

\* The band list with the rows and columns of Band 1 and Band 2 exchanged.
fn_superdove_bands_swapped ==
    << <<108, 172, 1>>, <<77, 111, 0>>, <<157, 209, 2>>, <<193, 242, 3>>,
       <<243, 285, 4>>, <<291, 339, 5>>, <<342, 374, 6>>, <<490, 545, 7>> >>

\* The bands of superdove(srf, band_muls), lines 169-184.
fn_superdove_bands ==
    << <<77, 111, 0>>, <<108, 172, 1>>, <<157, 209, 2>>, <<193, 242, 3>>,
       <<243, 285, 4>>, <<291, 339, 5>>, <<342, 374, 6>>, <<490, 545, 7>> >>

fn_sentinel3(t, muls) ==
    convolved_dfs(fn_sentinel3_bands, fn_sentinel3_labels, t, muls)

fn_superdove(t, muls) ==
    convolved_dfs(fn_superdove_bands, fn_superdove_labels, t, muls)


\* ----------------------------------------- do_convolution/convolution.py
\* convolution(), lines 54-57: the product of every observation column with
\* the SRF table.  (water_bands_removed only silences numpy's warning.)
convolution_products ==
    /\ fn_pc = "call"
    /\ fn_band_muls' = Products(spectral_response_function, fn_reflectance_data)
    /\ fn_pc' = "dispatch"
    /\ UNCHANGED <<fn_reflectance_data, spectral_response_function,
                   fn_sensor_name, s2_band_9_flag, fn_savefile, convolved_data,
                   collated_conv, fn_files>>
    /\ UNCHANGED <<class_vars, param_vars>>

\* A local that no statement has assigned.
Unbound == [bound |-> FALSE, dfs |-> << >>]

Bound(dfs) == [bound |-> TRUE, dfs |-> dfs]

\* convolution(), lines 60-68: three independent tests of sensor_name;
\* convolved_data is assigned only when one of them matches.
Dispatch(name, t, muls, flag) ==
    CASE name = "Sentinel2" -> Bound(fn_sentinel2(t, muls, flag))
      [] name = "Sentinel3" -> Bound(fn_sentinel3(t, muls))
      [] name = "Superdove" -> Bound(fn_superdove(t, muls))
      [] OTHER -> Unbound

convolution_dispatch ==
    /\ fn_pc = "dispatch"
    /\ convolved_data' = Dispatch(fn_sensor_name, spectral_response_function,
                                  fn_band_muls, s2_band_9_flag)
    /\ fn_pc' = "collate"
    /\ UNCHANGED <<fn_reflectance_data, spectral_response_function,
                   fn_sensor_name, s2_band_9_flag, fn_savefile, fn_band_muls,
                   collated_conv, fn_files>>
    /\ UNCHANGED <<class_vars, param_vars>>

\* pd.concat(convolved_data, axis=1) of frames that share their index.
RECURSIVE ConcatFrom(_, _, _)
ConcatFrom(dfs, i, cols) ==
    IF i > Len(dfs) THEN cols ELSE ConcatFrom(dfs, i + 1, cols \o dfs[i].cols)

concat(dfs) == [index |-> dfs[1].index, cols |-> ConcatFrom(dfs, 1, << >>)]

\* convolution(), lines 71-79: len() of an unassigned local raises
\* UnboundLocalError, element 0 of an empty list raises IndexError; otherwise
\* the frames are collated, saved when a path is given, and returned.
convolution_collate ==
    /\ fn_pc = "collate"
    /\ fn_pc' = CASE ~convolved_data.bound -> "UnboundLocalError"
                  [] Len(convolved_data.dfs) = 0 -> "IndexError"
                  [] OTHER -> "return"
    /\ collated_conv' = CASE fn_pc' # "return" -> collated_conv
                          [] Len(convolved_data.dfs) <= 1 -> convolved_data.dfs[1]
                          [] OTHER -> concat(convolved_data.dfs)
    /\ fn_files' = IF fn_pc' = "return" /\ fn_savefile # ""
                   THEN fn_files \cup {fn_savefile}
                   ELSE fn_files
    /\ UNCHANGED <<fn_reflectance_data, spectral_response_function,
                   fn_sensor_name, s2_band_9_flag, fn_savefile, fn_band_muls,
                   convolved_data>>
    /\ UNCHANGED <<class_vars, param_vars>>

\* The sensor names convolution() has a branch for.
fn_sensors == {"Sentinel2", "Sentinel3", "Superdove"}

\* The band table the SRF table of a call is laid out for.
fn_layout(name) ==
    CASE name = "Sentinel3" -> sentinel3_bands
      [] name = "Superdove" -> superdove_bands
      [] OTHER -> sentinel2_bands

\* The SRF tables a caller passes for a sensor: the one laid out for the
\* sensor's bands and, for Superdove, one with fewer rows.
fn_tables(name) ==
    {SrfTable(fn_layout(name), shape) : shape \in SrfShapes}
    \cup (IF name = "Superdove"
          THEN {ShortSrfTable(superdove_bands, shape) : shape \in SrfShapes}
          ELSE {})

\* No call of convolution().
FnIdle ==
    /\ fn_sensor_name = ""
    /\ fn_savefile = ""
    /\ s2_band_9_flag = FALSE
    /\ spectral_response_function = Unset
    /\ fn_reflectance_data = [first |-> 0, nrows |-> 0, cols |-> << >>]
    /\ fn_pc = "idle"
    /\ fn_band_muls = << >>
    /\ convolved_data = Unbound
    /\ collated_conv = NoFrame
    /\ fn_files = {}

\* A call of convolution() with a supported or an unsupported sensor name.
FnCall ==
    /\ fn_sensor_name \in fn_sensors \cup {"Sentinel2a", "Landsat8"}
    /\ fn_savefile \in {"", "out.csv"}
    /\ s2_band_9_flag \in BOOLEAN
    /\ spectral_response_function \in fn_tables(fn_sensor_name)
    /\ \E off \in Offsets, n \in 0..MaxObs :
          fn_reflectance_data \in
              ReflTables(ReflIndex(spectral_response_function, off), n)
    /\ fn_pc = "call"
    /\ fn_band_muls = << >>
    /\ convolved_data = Unbound
    /\ collated_conv = NoFrame
    /\ fn_files = {}

FnNext ==
    \/ convolution_products
    \/ convolution_dispatch
    \/ convolution_collate


\* ---------------------------------- convolution/apply_convolutions.py
\* Wavelengths, band centers and widths are held in tenths of a nanometre,
\* the step of the finer of the two routines; the column of a band in
\* self.srf is named by the whole nanometres of its center.

\* self.srf of a parametric sensor: its wavelength index, the names of its
\* columns and the shape of its weights.
ParamWeight(t, w, column) ==
    CASE t.shape = "box" -> Num(1, 1)
      [] t.shape = "saw" -> Num((w + column) % 3, 1)
      [] OTHER -> Zero

\* (arr >= start_wl) & (arr <= end_wl): the positions the mask selects.
Mask(arr, start_wl, end_wl) ==
    {i \in DOMAIN arr : arr[i] >= start_wl /\ arr[i] <= end_wl}

\* arr[mask]
Masked(arr, mask) ==
    [j \in 1..Cardinality(mask) |->
        arr[CHOOSE i \in mask : Cardinality({m \in mask : m < i}) = j - 1]]

\* str(int(center_wl))
ColumnOf(center_wl) == center_wl \div 10

\* self.srf.loc[labels, column] raises KeyError when the column or one of
\* the labels is not in the table.
HasKeys(t, labels, column) ==
    /\ column \in t.columns
    /\ \A i \in DOMAIN labels : labels[i] \in Range(t.index)

\* The odd widths, in tenths, whose half round(half_width, 1) rounds up in
\* IEEE double arithmetic; the other odd widths below 6 nm round down.
RoundsUp == {9, 11, 13, 15, 21, 27, 31, 35, 37, 47, 49, 55, 57, 59}

\* convolve_bands_01nm, lines 29-35: <<half_width_left, half_width_right>>
\* in tenths.  In double arithmetic `half_width % 0.1 == 0.05` holds for the
\* width 0.1 and for no other width of the table.
half_widths(width) ==
    IF width = 1 THEN <<0, 1>>
    ELSE IF width % 2 = 0 THEN <<width \div 2, width \div 2>>
    ELSE IF width \in RoundsUp THEN <<(width + 1) \div 2, (width + 1) \div 2>>
    ELSE <<(width - 1) \div 2, (width - 1) \div 2>>

\* np.interp(x, xp, fp) at one x: linear between the samples, the end
\* values outside them.
interp(x, xp, fp) ==
    IF x <= xp[1] THEN fp[1]
    ELSE IF x >= xp[Len(xp)] THEN fp[Len(xp)]
    ELSE LET i == CHOOSE i \in 1..(Len(xp) - 1) : xp[i] <= x /\ x < xp[i + 1]
         IN  Add(fp[i], Mul(Add(fp[i + 1], Mul(Num(-1, 1), fp[i])),
                            Num(x - xp[i], xp[i + 1] - xp[i])))

\* The message both routines append on a data gap:
\*   f"WARNING: Band {center_wl} nm was not convolved due to missing input data"
Message(center_wl) ==
    <<"WARNING: Band ", center_wl,
      " nm was not convolved due to missing input data">>

\* The value of a call that raised.
NoValue == [k |-> "none", n |-> 0, d |-> 1]

\* The outcomes of a call: the value returned or the exception raised, the
\* warnings list after it, and whether the call read self.srf.
Gap(self, center_wl) ==
    [raised |-> "", value |-> Zero,
     warnings |-> Append(self.warnings, Message(center_wl)),
     srf_read |-> FALSE]

Raise(self, exception) ==
    [raised |-> exception, value |-> NoValue, warnings |-> self.warnings,
     srf_read |-> TRUE]

Return(self, convolved_value) ==
    [raised |-> "", value |-> convolved_value, warnings |-> self.warnings,
     srf_read |-> TRUE]

\* The routine with the data gap test after the read of self.srf.
convolve_bands_1nm_read_first(self, center_wl, width, in_situ_wl, in_situ_rrs) ==
    LET half_width == 10 * (width \div 20)
        in_situ_mask == Mask(in_situ_wl, center_wl - half_width,
                             center_wl + half_width)
        in_situ_band_wl == Masked(in_situ_wl, in_situ_mask)
    IN  IF ~HasKeys(self.srf, in_situ_band_wl, ColumnOf(center_wl))
        THEN Raise(self, "KeyError")
        ELSE [Gap(self, center_wl) EXCEPT !.srf_read = TRUE]

\* The routine without the test of the denominator.
convolve_bands_1nm_unguarded(self, center_wl, width, in_situ_wl, in_situ_rrs) ==
    LET half_width == 10 * (width \div 20)
        in_situ_mask == Mask(in_situ_wl, center_wl - half_width,
                             center_wl + half_width)
        in_situ_band_wl == Masked(in_situ_wl, in_situ_mask)
        in_situ_band_rrs == Masked(in_situ_rrs, in_situ_mask)
        srf_band == [i \in DOMAIN in_situ_band_wl |->
                        ParamWeight(self.srf, in_situ_band_wl[i], ColumnOf(center_wl))]
    IN  IF Len(in_situ_band_wl) = 0 THEN Gap(self, center_wl)
        ELSE IF ~HasKeys(self.srf, in_situ_band_wl, ColumnOf(center_wl))
        THEN Raise(self, "KeyError")
        ELSE Return(self, Div(trapz([i \in DOMAIN srf_band |->
                                        Mul(in_situ_band_rrs[i], srf_band[i])],
                                    in_situ_band_wl),
                              trapz(srf_band, in_situ_band_wl)))

\* The routine with the half width rounded up to whole nanometres.
convolve_bands_1nm_ceil(self, center_wl, width, in_situ_wl, in_situ_rrs) ==
    LET half_width == 10 * ((width + 19) \div 20)
        in_situ_mask == Mask(in_situ_wl, center_wl - half_width,
                             center_wl + half_width)
        in_situ_band_wl == Masked(in_situ_wl, in_situ_mask)
        in_situ_band_rrs == Masked(in_situ_rrs, in_situ_mask)
        srf_band == [i \in DOMAIN in_situ_band_wl |->
                        ParamWeight(self.srf, in_situ_band_wl[i], ColumnOf(center_wl))]
        denominator == trapz(srf_band, in_situ_band_wl)
    IN  IF Len(in_situ_band_wl) = 0 THEN Gap(self, center_wl)
        ELSE IF ~HasKeys(self.srf, in_situ_band_wl, ColumnOf(center_wl))
        THEN Raise(self, "KeyError")
        ELSE IF ~IsZero(denominator)
        THEN Return(self, Div(trapz([i \in DOMAIN srf_band |->
                                        Mul(in_situ_band_rrs[i], srf_band[i])],
                                    in_situ_band_wl),
                              denominator))
        ELSE Return(self, Zero)

\* The routine with an even width narrowed to the odd width below it.
convolve_bands_1nm_narrow(self, center_wl, width, in_situ_wl, in_situ_rrs) ==
    LET half_width == 10 * ((width - 10) \div 20)
        in_situ_mask == Mask(in_situ_wl, center_wl - half_width,
                             center_wl + half_width)
        in_situ_band_wl == Masked(in_situ_wl, in_situ_mask)
        in_situ_band_rrs == Masked(in_situ_rrs, in_situ_mask)
        srf_band == [i \in DOMAIN in_situ_band_wl |->
                        ParamWeight(self.srf, in_situ_band_wl[i], ColumnOf(center_wl))]
        denominator == trapz(srf_band, in_situ_band_wl)
    IN  IF Len(in_situ_band_wl) = 0 THEN Gap(self, center_wl)
        ELSE IF ~HasKeys(self.srf, in_situ_band_wl, ColumnOf(center_wl))
        THEN Raise(self, "KeyError")
        ELSE IF ~IsZero(denominator)
        THEN Return(self, Div(trapz([i \in DOMAIN srf_band |->
                                        Mul(in_situ_band_rrs[i], srf_band[i])],
                                    in_situ_band_wl),
                              denominator))
        ELSE Return(self, Zero)

\* The routine giving the reflectance of the sample for a window that holds
\* a single sample.
convolve_bands_1nm_point(self, center_wl, width, in_situ_wl, in_situ_rrs) ==
    LET half_width == 10 * (width \div 20)
        in_situ_mask == Mask(in_situ_wl, center_wl - half_width,
                             center_wl + half_width)
        in_situ_band_wl == Masked(in_situ_wl, in_situ_mask)
        in_situ_band_rrs == Masked(in_situ_rrs, in_situ_mask)
        srf_band == [i \in DOMAIN in_situ_band_wl |->
                        ParamWeight(self.srf, in_situ_band_wl[i], ColumnOf(center_wl))]
        denominator == trapz(srf_band, in_situ_band_wl)
    IN  IF Len(in_situ_band_wl) = 0 THEN Gap(self, center_wl)
        ELSE IF ~HasKeys(self.srf, in_situ_band_wl, ColumnOf(center_wl))
        THEN Raise(self, "KeyError")
        ELSE IF Len(in_situ_band_wl) = 1
        THEN Return(self, in_situ_band_rrs[1])
        ELSE IF ~IsZero(denominator)
        THEN Return(self, Div(trapz([i \in DOMAIN srf_band |->
                                        Mul(in_situ_band_rrs[i], srf_band[i])],
                                    in_situ_band_wl),
                              denominator))
        ELSE Return(self, Zero)

\* The routine without the append to self.warnings.
convolve_bands_01nm_silent(self, center_wl, width, in_situ_wl, in_situ_rrs) ==
    Return(self, Zero)

\* convolve_bands_01nm(self, center_wl, width, in_situ_wl, in_situ_rrs)
convolve_bands_01nm(self, center_wl, width, in_situ_wl, in_situ_rrs) ==
    LET start_wl == center_wl - half_widths(width)[1]
        end_wl == center_wl + half_widths(width)[2]
        in_situ_mask == Mask(in_situ_wl, start_wl, end_wl)
        in_situ_band_wl == Masked(in_situ_wl, in_situ_mask)
        in_situ_band_rrs == Masked(in_situ_rrs, in_situ_mask)
        srf_mask == Mask(self.srf.index, start_wl, end_wl)
        srf_band_wl == Masked(self.srf.index, srf_mask)
        srf_band == [i \in DOMAIN srf_band_wl |->
                        ParamWeight(self.srf, srf_band_wl[i], ColumnOf(center_wl))]
        interp_rrs == [i \in DOMAIN srf_band_wl |->
                          interp(srf_band_wl[i], in_situ_band_wl, in_situ_band_rrs)]
        numerator == trapz([i \in DOMAIN srf_band |->
                               Mul(interp_rrs[i], srf_band[i])], srf_band_wl)
        denominator == trapz(srf_band, srf_band_wl)
    IN  IF Len(in_situ_band_wl) = 0 THEN Gap(self, center_wl)
        ELSE IF ~HasKeys(self.srf, srf_band_wl, ColumnOf(center_wl))
        THEN Raise(self, "KeyError")
        ELSE IF ~IsZero(denominator)
        THEN Return(self, Div(numerator, denominator))
        ELSE Return(self, Zero)

\* convolve_bands_1nm(self, center_wl, width, in_situ_wl, in_situ_rrs):
\* width // 2 whole nanometres on each side of the center.
convolve_bands_1nm(self, center_wl, width, in_situ_wl, in_situ_rrs) ==
    LET half_width == 10 * (width \div 20)
        start_wl == center_wl - half_width
        end_wl == center_wl + half_width
        in_situ_mask == Mask(in_situ_wl, start_wl, end_wl)
        in_situ_band_wl == Masked(in_situ_wl, in_situ_mask)
        in_situ_band_rrs == Masked(in_situ_rrs, in_situ_mask)
        srf_band == [i \in DOMAIN in_situ_band_wl |->
                        ParamWeight(self.srf, in_situ_band_wl[i], ColumnOf(center_wl))]
        numerator == trapz([i \in DOMAIN srf_band |->
                               Mul(in_situ_band_rrs[i], srf_band[i])],
                           in_situ_band_wl)
        denominator == trapz(srf_band, in_situ_band_wl)
    IN  IF Len(in_situ_band_wl) = 0 THEN Gap(self, center_wl)
        ELSE IF ~HasKeys(self.srf, in_situ_band_wl, ColumnOf(center_wl))
        THEN Raise(self, "KeyError")
        ELSE IF ~IsZero(denominator)
        THEN Return(self, Div(numerator, denominator))
        ELSE Return(self, Zero)

\* ------------------------------------------------- the parametric run
\* The loop that calls the routines is not among the source files; it is
\* modelled from the design description: every band descriptor of every
\* observation is passed to the routine of the sensor's resolution, the
\* values fill a row per observation, and the warnings are deduplicated and
\* surfaced once at the end of the run.

\* Largest number of observations of a parametric run.
MaxSpectra == 2

\* The wavelengths lo, lo + step, ..., up to hi.
Grid(lo, hi, step) == [i \in 1..((hi - lo) \div step + 1) |-> lo + (i - 1) * step]

Spectrum(wl, kind) == [wl |-> wl, rrs |-> [i \in DOMAIN wl |-> ReflCell(kind, wl[i])]]

\* The observations a run is given: sampled every 0.1 nm, every 1 nm, only
\* beyond every band, at a single wavelength.
Spectra ==
    {Spectrum(Grid(4005, 4025, 1), "ramp"),
     Spectrum(Grid(3990, 4040, 10), "flat"),
     Spectrum(Grid(3990, 4040, 10), "ramp"),
     Spectrum(Grid(4060, 4080, 10), "flat"),
     Spectrum(<<4010>>, "flat")}

Band(center_wl, width) == [center_wl |-> center_wl, width |-> width]

\* The (center, width) tables of the sensors of each resolution; the last
\* table of each names a band the SRF table has no column for.
BandTables(res) ==
    IF res = "01nm"
    THEN {<<Band(4010, 3), Band(4020, 4)>>, <<Band(4010, 1), Band(4020, 9)>>,
          <<Band(4010, 40), Band(4020, 20)>>, <<Band(4010, 5), Band(4030, 4)>>}
    ELSE {<<Band(4010, 20), Band(4020, 40)>>, <<Band(4010, 10), Band(4020, 30)>>,
          <<Band(4010, 50), Band(4030, 20)>>}

\* The SRF table of a sensor of each resolution.
ParamSrf(res, shape) ==
    [index |-> IF res = "01nm" THEN Grid(4000, 4030, 1) ELSE Grid(3990, 4040, 10),
     columns |-> {401, 402},
     shape |-> shape]

NoCall ==
    [obs |-> 0, band |-> 0, before |-> << >>, raised |-> "", value |-> NoValue,
     srf_read |-> FALSE]

\* A sequence without the repetitions of its elements.
Dedup(seq) ==
    Masked(seq, {i \in DOMAIN seq : \A j \in 1..(i - 1) : seq[j] # seq[i]})

\* What a call leaves behind: the value in the row of its observation, the
\* warnings, and the next (observation, band) of the loop; an exception
\* ends the run.
Step(result) ==
    LET last_band == band_j = Len(descriptors)
        last_obs == obs_i = Len(observations)
    IN  /\ call' = [obs |-> obs_i, band |-> band_j, before |-> warnings,
                    raised |-> result.raised, value |-> result.value,
                    srf_read |-> result.srf_read]
        /\ warnings' = result.warnings
        /\ output' = IF result.raised # "" THEN output
                     ELSE [output EXCEPT ![obs_i] = Append(@, result.value)]
        /\ run_pc' = IF result.raised # "" THEN result.raised
                     ELSE IF last_band /\ last_obs THEN "surface"
                     ELSE "loop"
        /\ band_j' = IF result.raised # "" THEN band_j
                     ELSE IF last_band THEN 1 ELSE band_j + 1
        /\ obs_i' = IF result.raised = "" /\ last_band THEN obs_i + 1 ELSE obs_i
        /\ UNCHANGED <<routine, descriptors, observations, self_srf, diagnostics>>
        /\ UNCHANGED <<class_vars, fn_vars>>

run_convolve_bands_01nm ==
    /\ run_pc = "loop"
    /\ routine = "01nm"
    /\ Step(convolve_bands_01nm([srf |-> self_srf, warnings |-> warnings],
                                descriptors[band_j].center_wl,
                                descriptors[band_j].width,
                                observations[obs_i].wl,
                                observations[obs_i].rrs))

run_convolve_bands_1nm ==
    /\ run_pc = "loop"
    /\ routine = "1nm"
    /\ Step(convolve_bands_1nm([srf |-> self_srf, warnings |-> warnings],
                               descriptors[band_j].center_wl,
                               descriptors[band_j].width,
                               observations[obs_i].wl,
                               observations[obs_i].rrs))

\* The end of the run: the diagnostics are the deduplicated warnings.
run_surface ==
    /\ run_pc = "surface"
    /\ diagnostics' = Dedup(warnings)
    /\ run_pc' = "done"
    /\ UNCHANGED <<routine, descriptors, observations, self_srf, warnings,
                   obs_i, band_j, call, output>>
    /\ UNCHANGED <<class_vars, fn_vars>>

\* The sequences of 1 .. MaxSpectra observations.
SpectraLists == UNION {[1..n -> Spectra] : n \in 1..MaxSpectra}

\* No parametric run.
ParamIdle ==
    /\ routine = ""
    /\ descriptors = << >>
    /\ observations = << >>
    /\ self_srf = ParamSrf("", "dead")
    /\ warnings = << >>
    /\ run_pc = "idle"
    /\ obs_i = 0
    /\ band_j = 0
    /\ call = NoCall
    /\ output = << >>
    /\ diagnostics = << >>

\* The start of a parametric run.
ParamRun ==
    /\ routine \in {"01nm", "1nm"}
    /\ descriptors \in BandTables(routine)
    /\ run_pc = "loop"
    /\ observations \in SpectraLists
    /\ \E shape \in SrfShapes : self_srf = ParamSrf(routine, shape)
    /\ warnings = << >>
    /\ obs_i = 1
    /\ band_j = 1
    /\ call = NoCall
    /\ output = [i \in DOMAIN observations |-> << >>]
    /\ diagnostics = << >>

ParamNext ==
    \/ run_convolve_bands_01nm
    \/ run_convolve_bands_1nm
    \/ run_surface


vars == <<class_vars, fn_vars, param_vars>>

\* The Convolution class: construction, then do_convolutions calls.
Init == ClassInit /\ FnIdle /\ ParamIdle

Next == ClassNext

Spec == Init /\ [][Next]_vars

\* One call of the function convolution().
FnInit == ClassIdle /\ FnCall /\ ParamIdle

FnSpec == FnInit /\ [][FnNext]_vars

\* One parametric run.
ParamInit == ClassIdle /\ FnIdle /\ ParamRun

ParamSpec == ParamInit /\ [][ParamNext]_vars

\* Any one of the three uses: an object of the class, a call of the
\* function, a parametric run.
AllInit == Init \/ FnInit \/ ParamInit

AllNext == ClassNext \/ FnNext \/ ParamNext

AllSpec == AllInit /\ [][AllNext]_vars


\* ================================================================== claims
\* The rows lo .. hi-1 of a band, as a set.
Rows(b) == b[1]..(b[2] - 1)

\* Whether the reflectance has a sample at every wavelength of the band's
\* rows of the product table (and the SRF table a row there).
Covered(p, b) ==
    \A i \in Rows(b) : InIndex(p.srf, p.first + i) /\ InIndex(p.refl, p.first + i)

\* Whether the reflectance has no sample at any wavelength of the band's
\* rows of the product table.
Uncovered(p, b) ==
    \A i \in Rows(b) : ~InIndex(p.refl, p.first + i)

\* Twice the trapezoidal integral of the whole numbers f[lo], ..., f[hi-1]
\* by the end-point form of the rule: f[lo] + f[hi-1] + 2 * (the rest).
TwiceIntegral(f, lo, hi) ==
    f[lo] + f[hi - 1] + 2 * SumOf([i \in (lo + 1)..(hi - 2) |-> f[i]])

\* For each key of BandKeys: whether the band is covered, and twice the
\* integrals of the SRF column and (when covered) of the product column
\* over the band's rows.
Reference ==
    [key \in BandKeys |->
        LET p == key[1]
            t == key[2]
            b == key[3]
        IN  [covered |-> Covered(p, b),
             uncovered |-> Uncovered(p, b),
             srf2 |-> TwiceIntegral([i \in Rows(b) |-> SrfCell(t, i, b[3]).n],
                                    b[1], b[2]),
             prod2 |-> IF Covered(p, b)
                       THEN TwiceIntegral([i \in Rows(b) |-> ProdCell(p, i, b[3]).n],
                                          b[1], b[2])
                       ELSE 0]]

\* The values of an output table, each with the product it was computed
\* from: <<c, m, b>> when column c is named after the observation of
\* band_muls[m] and b is a band of the sensor.
CellsOf(table, muls) ==
    {x \in (DOMAIN table.cols) \X (DOMAIN muls) \X (DOMAIN BandsOf(sensor_name)) :
        table.cols[x[1]].name = muls[x[2]].name \o "_conv"}

ValueAt(table, x) == table.cols[x[1]].vals[x[3]]

RefAt(muls, t, x) == Reference[<<muls[x[2]].df, t, BandsOf(sensor_name)[x[3]]>>]

\* P(value, reference) of every value of the means and of the stds table.
EveryValue(P(_, _)) ==
    /\ \A x \in CellsOf(convolved_bands, band_muls) :
          P(ValueAt(convolved_bands, x), RefAt(band_muls, srf, x))
    /\ \A x \in CellsOf(convolved_bands_stds, band_muls_stds) :
          P(ValueAt(convolved_bands_stds, x), RefAt(band_muls_stds, srf_stds, x))

SomeValue(P(_, _)) ==
    \/ \E x \in CellsOf(convolved_bands, band_muls) :
          P(ValueAt(convolved_bands, x), RefAt(band_muls, srf, x))
    \/ \E x \in CellsOf(convolved_bands_stds, band_muls_stds) :
          P(ValueAt(convolved_bands_stds, x), RefAt(band_muls_stds, srf_stds, x))

IsRatio(v, ref) ==
    (ref.covered /\ ref.srf2 # 0) =>
        (v.k = "num" /\ v.n * ref.srf2 = ref.prod2 * v.d)

IsWeightedRatio(v, ref) ==
    ref.covered /\ ref.srf2 # 0 /\ ref.prod2 # ref.srf2 /\ ref.prod2 # 2 * ref.srf2
    /\ v.k = "num"

ZeroWhenNoResponse(v, ref) == ref.srf2 = 0 => IsZero(v)

\* C2: a band whose SRF integral over its rows is exactly zero has the
\* value zero for every observation.
C2_ZeroIntegralGivesZero == EveryValue(ZeroWhenNoResponse)

ZeroWhenNoData(v, ref) == ref.uncovered => IsZero(v)

\* C3: a band in whose rows the observation has no reflectance sample has
\* the value zero for that observation.
C3_DataGapGivesZero == EveryValue(ZeroWhenNoData)

\* C4: a constructor that ends in the invalid-sensor error has executed
\* nothing but the validation: no SRF table is loaded, no output table
\* made, no product computed.
C4_RejectedBeforeLoading ==
    pc = "ValueError" =>
        /\ log = <<"validate">>
        /\ srf = Unset /\ srf_stds = Unset
        /\ convolved_bands = NoFrame /\ convolved_bands_stds = NoFrame
        /\ band_muls = << >> /\ band_muls_stds = << >>

\* The constructor has rejected a name outside the catalog, with
\* observations to multiply.
C4_Witness ==
    /\ pc = "ValueError"
    /\ sensor_name \notin Range(available_sensors)
    /\ Len(reflectance_data.cols) > 0

\* C5: a call of convolution() with a sensor name it has no branch for
\* is rejected before any product is computed: it computes no product and
\* gets no further than the rejection.
C5_RejectedBeforeProducts ==
    fn_sensor_name \notin fn_sensors =>
        /\ fn_band_muls = << >>
        /\ fn_pc \in {"idle", "call"}

\* The band window [start_wl, end_wl] of a routine.
Window(res, band) ==
    IF res = "01nm"
    THEN <<band.center_wl - half_widths(band.width)[1],
           band.center_wl + half_widths(band.width)[2]>>
    ELSE <<band.center_wl - 10 * (band.width \div 20),
           band.center_wl + 10 * (band.width \div 20)>>

\* The wavelengths of an array that lie in a window.
Within(wl, win) == {wl[i] : i \in {i \in DOMAIN wl : win[1] <= wl[i] /\ wl[i] <= win[2]}}

\* Observation i has no sample in the window of band j.
GapAt(i, j) == Within(observations[i].wl, Window(routine, descriptors[j])) = {}

\* The last call met a data gap.
DataGap == call.obs > 0 /\ GapAt(call.obs, call.band)

\* C6 (amended): on a data gap either routine returns 0, appends to the
\* warnings exactly the one message "WARNING: Band {center} nm was not
\* convolved due to missing input data", and reads nothing from self.srf.
C6_GapWarnsWithPrefix ==
    DataGap =>
        /\ call.raised = "" /\ IsZero(call.value)
        /\ warnings = Append(call.before,
               <<"WARNING: Band ", descriptors[call.band].center_wl,
                 " nm was not convolved due to missing input data">>)
        /\ ~call.srf_read

\* A call of the 1 nm routine met a data gap after an earlier warning.
C6_Witness ==
    /\ DataGap
    /\ routine = "1nm"
    /\ Len(call.before) > 0
    /\ Len(warnings) = Len(call.before) + 1

\* C6: on a data gap either routine returns 0, appends to the warnings
\* exactly the one message "Band {center} nm was not convolved due to
\* missing input data", and reads nothing from self.srf.
C6_GapWarns ==
    DataGap =>
        /\ call.raised = "" /\ IsZero(call.value)
        /\ warnings = Append(call.before,
               <<"Band ", descriptors[call.band].center_wl,
                 " nm was not convolved due to missing input data">>)
        /\ ~call.srf_read

\* The wavelengths the SRF weights of the last call are integrated over:
\* the rows of self.srf in the window (0.1 nm routine), the input
\* wavelengths in the window (1 nm routine); in increasing order.
Sorted(set) ==
    [j \in 1..Cardinality(set) |->
        CHOOSE w \in set : Cardinality({v \in set : v < w}) = j - 1]

WeightLabels ==
    LET win == Window(routine, descriptors[call.band])
    IN  IF routine = "01nm" THEN Sorted(Within(self_srf.index, win))
        ELSE Sorted(Within(observations[call.obs].wl, win))

\* The last call had input samples in its window, found its weights in
\* self.srf, and their trapezoidal integral is zero.
Degenerate ==
    /\ call.obs > 0
    /\ ~GapAt(call.obs, call.band)
    /\ HasKeys(self_srf, WeightLabels, ColumnOf(descriptors[call.band].center_wl))
    /\ IsZero(trapz([i \in DOMAIN WeightLabels |->
                        ParamWeight(self_srf, WeightLabels[i],
                                    ColumnOf(descriptors[call.band].center_wl))],
                    WeightLabels))

\* C7: with input samples in the window and a zero SRF integral, either
\* routine returns 0 and leaves the warnings as they were.
C7_DegenerateReturnsZero ==
    Degenerate =>
        /\ call.raised = "" /\ IsZero(call.value)
        /\ warnings = call.before

\* The 1 nm routine returned 0 for a zero integral of weights that are not
\* all zero (a window with a single sample).
C7_Witness ==
    /\ Degenerate
    /\ routine = "1nm"
    /\ self_srf.shape = "box"
    /\ IsZero(call.value)

\* C8: every call of either routine returns a finite value and raises
\* nothing.
C8_FiniteNeverRaises ==
    call.obs > 0 => call.raised = "" /\ IsFinite(call.value)

\* The number of times m occurs in seq.
Count(seq, m) == Cardinality({i \in DOMAIN seq : seq[i] = m})

C10_RunsReturnSameTable ==
    \A i \in DOMAIN returned : returned[i] = returned[1]


\* The place of a label in a list of labels.
PositionOf(label, labels) == CHOOSE i \in DOMAIN labels : labels[i] = label

\* Every column of an output table that is named after a product of muls
\* has a value per label; the value of row i is the band value of the
\* routine's i-th band, and that band reads the SRF column Col(i).
RowsFrom(table, muls, t, bands, Col(_)) ==
    \A c \in DOMAIN table.cols, m \in DOMAIN muls :
        table.cols[c].name = muls[m].name \o "_conv" =>
            /\ DOMAIN table.cols[c].vals = DOMAIN table.index
            /\ \A i \in DOMAIN table.index :
                  /\ bands[i][3] = Col(i)
                  /\ table.cols[c].vals[i] = BandValues[<<muls[m].df, t, bands[i]>>]

\* The band labels in the order of the columns of the SRF table a call of
\* convolution() is given.
fn_columns ==
    CASE fn_sensor_name = "Sentinel2" -> get_central_wavelengths("Sentinel2a")
      [] fn_sensor_name = "Sentinel3" -> fn_sentinel3_labels
      [] OTHER -> fn_superdove_labels

fn_labels ==
    CASE fn_sensor_name = "Sentinel2" -> fn_sentinel2_labels(s2_band_9_flag)
      [] fn_sensor_name = "Sentinel3" -> fn_sentinel3_labels
      [] OTHER -> fn_superdove_labels

fn_bands ==
    CASE fn_sensor_name = "Sentinel2" -> fn_sentinel2_bands(s2_band_9_flag)
      [] fn_sensor_name = "Sentinel3" -> fn_sentinel3_bands
      [] OTHER -> fn_superdove_bands

\* The tables of a constructed object, and the table a call of
\* convolution() has returned, are labelled with the band list `labels` of
\* their sensor and filled from the SRF columns Col.
LabelledAndFilled(ClassCol(_), FnCol(_)) ==
    /\ pc = "ready" =>
          /\ convolved_bands.index = get_central_wavelengths(sensor_name)
          /\ convolved_bands_stds.index = get_central_wavelengths(sensor_name)
          /\ RowsFrom(convolved_bands, band_muls, srf, BandsOf(sensor_name), ClassCol)
          /\ RowsFrom(convolved_bands_stds, band_muls_stds, srf_stds,
                      BandsOf(sensor_name), ClassCol)
    /\ fn_pc = "return" =>
          /\ collated_conv.index = fn_labels
          /\ RowsFrom(collated_conv, fn_band_muls, spectral_response_function,
                      fn_bands, FnCol)

ColumnOfRow(i) == i - 1

ColumnOfLabel(i) == PositionOf(fn_labels[i], fn_columns) - 1

\* C11 (amended): the rows of every output table are labelled with the
\* ordered band list of its routine, and row i holds the value integrated
\* from the SRF column of the band its label names: the i-th column in the
\* routines of the class and in sentinel3 and superdove of do_convolution,
\* the column of the label in the 13 band Sentinel-2 table in sentinel2 of
\* do_convolution.
C11_RowsFromLabelledColumn == LabelledAndFilled(ColumnOfRow, ColumnOfLabel)

\* convolution() has returned the Sentinel-2 table of two observations with
\* Band 9.
C11_Witness ==
    /\ fn_pc = "return"
    /\ fn_sensor_name = "Sentinel2"
    /\ s2_band_9_flag
    /\ Len(collated_conv.cols) >= 2

\* C11: the rows of every output table are labelled with the ordered band
\* list of its routine, and row i holds the value integrated from the i-th
\* SRF column.
C11_RowsFromIthColumn == LabelledAndFilled(ColumnOfRow, ColumnOfRow)


\* The columns of an output table are those of the reflectance table, each
\* name suffixed "_conv", in the same order.
ColumnsOf(table, refl) ==
    /\ Len(table.cols) = Len(refl.cols)
    /\ \A j \in DOMAIN refl.cols :
          table.cols[j].name = refl.cols[j].name \o "_conv"

\* C12: the table(s) the first do_convolutions call of an object returns,
\* and the table convolution() returns, have one column per observation
\* column of the input, named after it with the suffix "_conv", in the
\* input's order.
C12_OneColumnPerObservation ==
    /\ Len(returned) >= 1 =>
          \A k \in DOMAIN returned[1] : ColumnsOf(returned[1][k], reflectance_data)
    /\ fn_pc = "return" => ColumnsOf(collated_conv, fn_reflectance_data)

\* The first run of the Landsat 9 routine over two observations has
\* returned its pair of tables.
C12_Witness ==
    /\ Len(returned) = 1
    /\ sensor_name = "Landsat9OLI"
    /\ Len(reflectance_data.cols) = 2
    /\ Len(returned[1][2].cols) = 2


\* The names of the columns of an output table, in order.
ColumnNames(table) == [j \in DOMAIN table.cols |-> table.cols[j].name]

\* C13: every do_convolutions call returns a pair of tables for
\* Sentinel3a, Sentinel3b, Landsat8OLI and Landsat9OLI and one table for
\* every other sensor; the two tables of a pair have the same row labels
\* and the same column names in the same order.
C13_PairForStdsSensors ==
    \A k \in DOMAIN returned :
        IF sensor_name \in {"Sentinel3a", "Sentinel3b", "Landsat8OLI", "Landsat9OLI"}
        THEN /\ Len(returned[k]) = 2
             /\ returned[k][1].index = returned[k][2].index
             /\ ColumnNames(returned[k][1]) = ColumnNames(returned[k][2])
        ELSE Len(returned[k]) = 1

\* Sentinel3a has returned a pair of tables of two columns that differ in
\* their values.
C13_Witness ==
    /\ Len(returned) >= 1
    /\ sensor_name = "Sentinel3a"
    /\ Len(returned[1][1].cols) = 2
    /\ returned[1][1] # returned[1][2]


\* C14: the files an object has written are none without a savefile or a
\* run, and otherwise the means file, with the stds file exactly when the
\* sensor has an stds SRF table.
C14_OneFilePerReturnedTable ==
    files = IF savefile = "" \/ Len(returned) = 0 THEN {}
            ELSE {sensor_name \o "_convolved_bands.csv"}
                 \cup (IF sensor_name \in {"Sentinel3a", "Sentinel3b",
                                           "Landsat8OLI", "Landsat9OLI"}
                       THEN {sensor_name \o "_convolved_bands_stds.csv"}
                       ELSE {})


\* The product df comes from a flat observation that has a sample at every
\* wavelength of SRF table t.
FlatAndCovering(df, t) ==
    /\ df.kind = "flat"
    /\ df.refl.first <= t.first
    /\ df.refl.first + df.refl.nrows >= t.first + t.nrows

\* The reflectance of the flat observations.
FlatValue == ReflCell("flat", 0)

\* Every value of an output table computed from a flat, covering
\* observation is the observation's reflectance.
FlatColumns(table, muls, t) ==
    \A c \in DOMAIN table.cols, m \in DOMAIN muls :
        (table.cols[c].name = muls[m].name \o "_conv" /\ FlatAndCovering(muls[m].df, t)) =>
            \A i \in DOMAIN table.cols[c].vals : Eq(table.cols[c].vals[i], FlatValue)

\* C15: a flat observation that covers all bands yields its reflectance for
\* every band: in the tables of an object, in the table convolution()
\* returns, and in the value of every call of a parametric routine whose
\* window holds samples of the observation.
C15_FlatGivesItsValue ==
    /\ FlatColumns(convolved_bands, band_muls, srf)
    /\ FlatColumns(convolved_bands_stds, band_muls_stds, srf_stds)
    /\ FlatColumns(collated_conv, fn_band_muls, spectral_response_function)
    /\ (call.obs > 0 /\ ~GapAt(call.obs, call.band)
        /\ \A i \in DOMAIN observations[call.obs].rrs :
              observations[call.obs].rrs[i] = FlatValue)
       => (call.raised = "" /\ Eq(call.value, FlatValue))


\* The positions of the samples of the last call's observation that lie in
\* [center - floor(width / 2), center + floor(width / 2)], the width in
\* whole nanometres, both ends included; in increasing order.
CoarseSelected ==
    LET band == descriptors[call.band]
        half == 10 * ((band.width \div 10) \div 2)
        wl == observations[call.obs].wl
    IN  Sorted({i \in DOMAIN wl : band.center_wl - half <= wl[i]
                                  /\ wl[i] <= band.center_wl + half})

\* The ratio of trapezoidal integrals over the selected samples, with the
\* weight of each sample the one self.srf holds at the sample's wavelength.
CoarseRatio ==
    LET wl == [j \in DOMAIN CoarseSelected |-> observations[call.obs].wl[CoarseSelected[j]]]
        rrs == [j \in DOMAIN CoarseSelected |-> observations[call.obs].rrs[CoarseSelected[j]]]
        weight == [j \in DOMAIN CoarseSelected |->
                      ParamWeight(self_srf, wl[j], descriptors[call.band].center_wl \div 10)]
        den == trapz(weight, wl)
    IN  IF IsZero(den) THEN Zero
        ELSE Div(trapz([j \in DOMAIN wl |-> Mul(rrs[j], weight[j])], wl), den)

\* C16: a call of convolve_bands_1nm that returns, returns 0 with a warning
\* when no sample lies in [center - floor(width/2), center + floor(width/2)]
\* and otherwise the ratio of integrals over exactly the samples in that
\* window, weighted by self.srf at exactly their wavelengths.
C16_CoarseWindow ==
    (routine = "1nm" /\ call.obs > 0 /\ call.raised = "") =>
        IF Len(CoarseSelected) = 0
        THEN IsZero(call.value) /\ Len(warnings) = Len(call.before) + 1
        ELSE Eq(call.value, CoarseRatio) /\ warnings = call.before

\* convolve_bands_1nm has returned a nonzero value for a window of width 5
\* (two nanometres on each side) holding five samples of varying
\* reflectance and weight.
C16_Witness ==
    /\ routine = "1nm"
    /\ call.obs > 0
    /\ call.raised = ""
    /\ descriptors[call.band].width = 50
    /\ self_srf.shape = "saw"
    /\ Len(CoarseSelected) = 5
    /\ observations[call.obs].rrs[1] # observations[call.obs].rrs[2]
    /\ ~IsZero(call.value)


\* The window of the 0.1 nm routine as described: for a width whose half
\* lies on a half step (an odd number of tenths), the half less 0.05 on the
\* left and the half plus 0.05 on the right; otherwise the half on both
\* sides.
SplitWindow(band) ==
    IF band.width % 2 = 1
    THEN <<band.center_wl - (band.width - 1) \div 2,
           band.center_wl + (band.width + 1) \div 2>>
    ELSE <<band.center_wl - band.width \div 2, band.center_wl + band.width \div 2>>

\* The value of the 0.1 nm routine for the last call's observation over a
\* given window: the input samples in the window interpolated at the SRF
\* rows in the window, and the ratio of the integrals over those rows.
FineValue(win) ==
    LET obs == observations[call.obs]
        at == Sorted({i \in DOMAIN obs.wl : win[1] <= obs.wl[i] /\ obs.wl[i] <= win[2]})
        xp == [j \in DOMAIN at |-> obs.wl[at[j]]]
        fp == [j \in DOMAIN at |-> obs.rrs[at[j]]]
        x == Sorted(Within(self_srf.index, win))
        weight == [j \in DOMAIN x |->
                      ParamWeight(self_srf, x[j], descriptors[call.band].center_wl \div 10)]
        den == trapz(weight, x)
    IN  IF Len(at) = 0 \/ IsZero(den) THEN Zero
        ELSE Div(trapz([j \in DOMAIN x |-> Mul(interp(x[j], xp, fp), weight[j])], x), den)

\* C17: the value convolve_bands_01nm returns is the one of the window
\* [center - (width/2 - 0.05), center + (width/2 + 0.05)] when width/2 lies
\* on a half step, and of [center - width/2, center + width/2] otherwise.
C17_FineWindow ==
    (routine = "01nm" /\ call.obs > 0 /\ call.raised = "") =>
        Eq(call.value, FineValue(SplitWindow(descriptors[call.band])))

\* The odd number of nanometres nearest to a width, the larger of two that
\* are equally near; in tenths.
NearestOdd(width) ==
    CHOOSE m \in {10 * (2 * k - 1) : k \in 1..5} :
        \A o \in {10 * (2 * k - 1) : k \in 1..5} :
            \/ Abs(m - width) < Abs(o - width)
            \/ Abs(m - width) = Abs(o - width) /\ m >= o

\* The whole wavelengths a band of an odd width covers: (width - 1) / 2 on
\* each side of the center.
OddWindow(band) ==
    <<band.center_wl - (NearestOdd(band.width) - 10) \div 2,
      band.center_wl + (NearestOdd(band.width) - 10) \div 2>>

\* The value of the 1 nm routine for the last call's observation over a
\* given window: the ratio of the integrals over the samples in the window,
\* weighted by self.srf at their wavelengths.
CoarseValue(win) ==
    LET obs == observations[call.obs]
        at == Sorted({i \in DOMAIN obs.wl : win[1] <= obs.wl[i] /\ obs.wl[i] <= win[2]})
        wl == [j \in DOMAIN at |-> obs.wl[at[j]]]
        weight == [j \in DOMAIN at |->
                      ParamWeight(self_srf, wl[j], descriptors[call.band].center_wl \div 10)]
        den == trapz(weight, wl)
    IN  IF Len(at) = 0 \/ IsZero(den) THEN Zero
        ELSE Div(trapz([j \in DOMAIN at |-> Mul(obs.rrs[at[j]], weight[j])], wl), den)

OutOfDomain ==
    /\ fn_pc # "idle"
    /\ fn_sensor_name \in fn_sensors
    /\ \E b \in DOMAIN fn_bands : fn_bands[b][2] > spectral_response_function.nrows

\* C19: a call whose SRF table has fewer rows than the hi index of a band
\* is refused at setup: no product with an observation is computed, no
\* routine is run and no table of values is returned.
C19_OutOfDomainRefused ==
    OutOfDomain =>
        /\ fn_pc \notin {"dispatch", "collate", "return"}
        /\ fn_band_muls = << >>
        /\ collated_conv = NoFrame

\* The rows of the Sentinel-2 table of convolution() without Band 9, and
\* with Band 9 after Band 8A.
WithoutBand9 ==
    <<"Band1_443", "Band2_490", "Band3_560", "Band4_665", "Band5_705",
      "Band6_740", "Band7_783", "Band8_842", "Band8A_865", "Band11_1610",
      "Band12_2190">>

WithBand9 == SubSeq(WithoutBand9, 1, 9) \o <<"Band9_940">> \o SubSeq(WithoutBand9, 10, 11)

\* What sentinel2 gives for the products of the call under the other
\* setting of s2_band_9_flag.
OtherFlag ==
    fn_sentinel2(spectral_response_function, fn_band_muls, ~s2_band_9_flag)

\* C20: the Sentinel-2 table convolution() returns has the 11 rows
\* Band1_443 .. Band8A_865, Band11_1610, Band12_2190 without the flag and
\* the 12 rows with Band9_940 between Band8A_865 and Band11_1610 with it,
\* never a row of Band 10; every value of a band other than Band 9 is the
\* one the routine gives under the other setting of the flag.
C20_Band9OnlyWithFlag ==
    (fn_pc = "return" /\ fn_sensor_name = "Sentinel2") =>
        /\ collated_conv.index = IF s2_band_9_flag THEN WithBand9 ELSE WithoutBand9
        /\ Len(collated_conv.index) = IF s2_band_9_flag THEN 12 ELSE 11
        /\ \A i \in DOMAIN collated_conv.index :
              collated_conv.index[i] \in {WithBand9[j] : j \in DOMAIN WithBand9}
        /\ Len(collated_conv.cols) = Len(OtherFlag)
        /\ \A c \in DOMAIN collated_conv.cols, i \in DOMAIN collated_conv.index :
              collated_conv.index[i] # "Band9_940" =>
                  collated_conv.cols[c].vals[i]
                      = OtherFlag[c].cols[1].vals[PositionOf(collated_conv.index[i],
                                                             OtherFlag[c].index)]

\* convolution() has returned the 12 row Sentinel-2 table, Band 9 in row
\* 10, with finite nonzero values for Band 11 and Band 12 of an observation
\* whose reflectance varies, under weights that vary.
C20_Witness ==
    /\ fn_pc = "return"
    /\ fn_sensor_name = "Sentinel2"
    /\ s2_band_9_flag
    /\ collated_conv.index[9] = "Band8A_865"
    /\ collated_conv.index[10] = "Band9_940"
    /\ collated_conv.index[11] = "Band11_1610"
    /\ spectral_response_function.shape = "saw"
    /\ \E c \in DOMAIN collated_conv.cols :
          /\ fn_reflectance_data.cols[c].kind = "ramp"
          /\ \A i \in {11, 12} :
                /\ IsFinite(collated_conv.cols[c].vals[i])
                /\ ~IsZero(collated_conv.cols[c].vals[i])

\* The nine sensor names of the catalog.
Catalog ==
    {"Sentinel2a", "Sentinel2b", "Sentinel3a", "Sentinel3b", "Superdove",
     "Landsat5TM", "Landsat7ETM+", "Landsat8OLI", "Landsat9OLI"}

\* The four sensors with an stds table.
WithStds == {"Sentinel3a", "Sentinel3b", "Landsat8OLI", "Landsat9OLI"}

\* The routine runs do_convolutions has logged.
LoggedRuns ==
    Masked(log, {i \in DOMAIN log :
                    log[i] \notin {"validate", "get_srf", "frames", "products"}})

\* C21: for every name of the catalog get_srf returns a pair of tables, the
\* stds table non-empty exactly for Sentinel3a, Sentinel3b, Landsat8OLI and
\* Landsat9OLI; every call of do_convolutions runs one routine, once on the
\* means inputs and, for those four sensors only, once more on the stds
\* inputs.
C21_OneRoutinePerSensor ==
    sensor_name \in Catalog =>
        /\ pc \notin {"ValueError", "TypeError"}
        /\ pc \in {"frames", "products", "ready"} =>
              /\ ~IsEmpty(srf)
              /\ srf_stds # Unset
              /\ ~IsEmpty(srf_stds) <=> sensor_name \in WithStds
        /\ \E r \in {"sentinel2", "sentinel3", "superdove", "landsat5", "landsat7",
                     "landsat8", "landsat9"} :
              LoggedRuns =
                  [i \in 1..(Len(returned) * (IF sensor_name \in WithStds THEN 2 ELSE 1)) |->
                      IF sensor_name \in WithStds /\ i % 2 = 0
                      THEN Run(r, "stds") ELSE Run(r, "means")]
        /\ Len(convolved_bands.cols) = Len(returned) * Len(reflectance_data.cols)
        /\ Len(convolved_bands_stds.cols)
              = IF sensor_name \in WithStds
                THEN Len(returned) * Len(reflectance_data.cols) ELSE 0

\* do_convolutions has run landsat9 on the means and on the stds inputs of
\* Landsat9OLI, and each table has its column of values.
C21_Witness ==
    /\ sensor_name = "Landsat9OLI"
    /\ Len(returned) = 1
    /\ LoggedRuns = <<Run("landsat9", "means"), Run("landsat9", "stds")>>
    /\ ~IsEmpty(srf_stds)
    /\ Len(convolved_bands.cols) = 1
    /\ Len(convolved_bands_stds.cols) = 1
    /\ IsFinite(convolved_bands_stds.cols[1].vals[1])

\* The sensor of the Convolution class whose routine has the name of the
\* routine convolution() runs.
ClassSensor ==
    CASE fn_sensor_name = "Sentinel2" -> "Sentinel2a"
      [] fn_sensor_name = "Sentinel3" -> "Sentinel3a"
      [] OTHER -> "Superdove"

\* The table the routine of the class gives for the SRF table and the
\* products of the call of convolution().
ClassTable ==
    AfterRuns(Runs(ClassSensor), 1, "means", spectral_response_function,
              fn_band_muls, NewFrame(get_central_wavelengths(ClassSensor)))

\* C22: for the SRF table and the reflectance table of a call of
\* convolution(), every band of the returned table is a band of the class
\* routine of the same sensor, read from the same rows and the same column,
\* and holds for every observation the value the class routine gives.
C22_SameAsClassRoutine ==
    (fn_pc = "return" /\ fn_sensor_name \in fn_sensors) =>
        /\ Len(ClassTable.cols) = Len(collated_conv.cols)
        /\ \A i \in DOMAIN collated_conv.index :
              /\ collated_conv.index[i] \in Range(ClassTable.index)
              /\ fn_bands[i]
                    = BandsOf(ClassSensor)[PositionOf(collated_conv.index[i],
                                                      ClassTable.index)]
              /\ \A c \in DOMAIN collated_conv.cols :
                    /\ collated_conv.cols[c].name = ClassTable.cols[c].name
                    /\ collated_conv.cols[c].vals[i]
                          = ClassTable.cols[c].vals[PositionOf(collated_conv.index[i],
                                                               ClassTable.index)]

\* convolution() has returned the Superdove table of two observations, one
\* of them of varying reflectance, with finite nonzero values for Band 1 and
\* Band 2 that differ, under weights that vary.
C22_Witness ==
    /\ fn_pc = "return"
    /\ fn_sensor_name = "Superdove"
    /\ spectral_response_function.shape = "saw"
    /\ Len(collated_conv.cols) = 2
    /\ \E c \in DOMAIN collated_conv.cols :
          /\ fn_reflectance_data.cols[c].kind = "ramp"
          /\ IsFinite(collated_conv.cols[c].vals[1])
          /\ IsFinite(collated_conv.cols[c].vals[2])
          /\ ~IsZero(collated_conv.cols[c].vals[1])
          /\ ~Eq(collated_conv.cols[c].vals[1], collated_conv.cols[c].vals[2])

\* The input wavelengths of the last call's observation that lie in the
\* window of its band.
InWindow == Within(observations[call.obs].wl, Window(routine, descriptors[call.band]))

\* The last call is one of convolve_bands_1nm with exactly one input sample
\* in the window of its band, and self.srf has a weight for that sample.
SingleSample ==
    /\ routine = "1nm"
    /\ call.obs > 0
    /\ Cardinality(InWindow) = 1
    /\ HasKeys(self_srf, Sorted(InWindow), ColumnOf(descriptors[call.band].center_wl))

\* C23: a call of convolve_bands_1nm with exactly one input sample in the
\* window returns 0, whatever the reflectance and the weight at the sample,
\* and appends no diagnostic; the window of a band of width below 2 is the
\* single point [center, center].
C23_SingleSampleGivesZero ==
    /\ SingleSample =>
          /\ call.raised = ""
          /\ IsZero(call.value)
          /\ warnings = call.before
    /\ (routine = "1nm" /\ call.obs > 0 /\ descriptors[call.band].width < 20) =>
          Window(routine, descriptors[call.band])
              = <<descriptors[call.band].center_wl, descriptors[call.band].center_wl>>

\* convolve_bands_1nm has returned 0 for a band of width 1 and an
\* observation with several samples, one of them at the center, where the
\* reflectance and the weight are not zero.
C23_Witness ==
    /\ SingleSample
    /\ descriptors[call.band].width = 10
    /\ Len(observations[call.obs].wl) > 1
    /\ InWindow = {descriptors[call.band].center_wl}
    /\ ~IsZero(ParamWeight(self_srf, descriptors[call.band].center_wl,
                           ColumnOf(descriptors[call.band].center_wl)))
    /\ \A i \in DOMAIN observations[call.obs].wl :
          ~IsZero(observations[call.obs].rrs[i])
    /\ IsZero(call.value)
    /\ warnings = call.before

\* C24: a call of convolution() for a supported sensor and a reflectance
\* table of n >= 0 observation columns ends by returning one table with n
\* columns, named after the observations in input order, and has written it
\* to savefile exactly when a savefile was given.
C24_TableOfEveryInput ==
    (fn_sensor_name \in fn_sensors
       /\ fn_pc \notin {"idle", "call", "dispatch", "collate"}) =>
        /\ fn_pc = "return"
        /\ Len(collated_conv.cols) = Len(fn_reflectance_data.cols)
        /\ \A c \in DOMAIN collated_conv.cols :
              collated_conv.cols[c].name = fn_reflectance_data.cols[c].name \o "_conv"
        /\ fn_files = IF fn_savefile # "" THEN {fn_savefile} ELSE {}

=============================================================================
